---------------------------- MODULE Spec2Model ----------------------------
(* A model of the pypi-mirror scripts: scripts/generate_index.py            *)
(* (normalize, extract_package_name, sha256_file, generate_index) and       *)
(* scripts/verify_mirror.py (normalize, verify).                            *)
(*                                                                          *)
(* Python strings are sequences of one-character strings, so that every     *)
(* prefix test, split and regular-expression match is computed character    *)
(* by character as the code computes it.                                    *)
EXTENDS Integers, Sequences, FiniteSets, TLC

VARIABLES
    packages_dir,   \* the artifact directory: entry name -> [kind, bytes]
    index_dir,      \* the output tree under <index_dir>/simple
    pc,             \* "changed": the artifact directory changed since the last
                    \* generate_index run (or none ran); "generated": it did not
    requirements,   \* the lines of the requirements file
    report,         \* what the last verify run printed and how it exited
    name,           \* normalize's argument
    variant,        \* a respelling of name (case, separators)
    normalized,     \* the results of the last normalize calls
    filename,       \* extract_package_name's argument
    classified      \* the result of the last extract_package_name call

vars == <<packages_dir, index_dir, pc, requirements, report,
          name, variant, normalized, filename, classified>>

----------------------------------------------------------------------------
(* Characters and strings *)

\* The characters of the model in code point order (str comparison, sorted()).
Ascii ==
    <<" ", "#", "-", ".", "0", "1", "2", "3", "4", "5", "6", "7", "8", "9", "=", "@",
      "A", "B", "C", "D", "E", "F", "G", "H", "I", "J", "K", "L", "M",
      "N", "O", "P", "Q", "R", "S", "T", "U", "V", "W", "X", "Y", "Z",
      "[", "]", "_",
      "a", "b", "c", "d", "e", "f", "g", "h", "i", "j", "k", "l", "m",
      "n", "o", "p", "q", "r", "s", "t", "u", "v", "w", "x", "y", "z">>

Ord(c) == CHOOSE i \in 1..Len(Ascii) : Ascii[i] = c

UpperLetters ==
    {"A", "B", "C", "D", "E", "F", "G", "H", "I", "J", "K", "L", "M",
     "N", "O", "P", "Q", "R", "S", "T", "U", "V", "W", "X", "Y", "Z"}

LowerLetters ==
    {"a", "b", "c", "d", "e", "f", "g", "h", "i", "j", "k", "l", "m",
     "n", "o", "p", "q", "r", "s", "t", "u", "v", "w", "x", "y", "z"}

Digits == {"0", "1", "2", "3", "4", "5", "6", "7", "8", "9"}

\* The characters the pattern [-_.] matches.
Separators == {"-", "_", "."}

\* str.lower() on one character: 'A' (Ord 17) -> 'a' (Ord 46).
LowerChar(c) == IF c \in UpperLetters THEN Ascii[Ord(c) + 29] ELSE c

\* str.lower()
Lower(s) == [i \in 1..Len(s) |-> LowerChar(s[i])]

\* str.startswith / str.endswith
StartsWith(s, p) == Len(p) <= Len(s) /\ SubSeq(s, 1, Len(p)) = p

EndsWith(s, p) == Len(p) <= Len(s) /\ SubSeq(s, Len(s) - Len(p) + 1, Len(s)) = p

\* s < t in Python's str order (lexicographic by code point).
RECURSIVE StrLess(_, _)
StrLess(s, t) ==
    IF t = <<>> THEN FALSE
    ELSE IF s = <<>> THEN TRUE
    ELSE IF s[1] = t[1] THEN StrLess(Tail(s), Tail(t))
    ELSE Ord(s[1]) < Ord(t[1])

\* sorted(S) for a finite set of strings.
RECURSIVE Sorted(_)
Sorted(S) ==
    IF S = {} THEN <<>>
    ELSE LET m == CHOOSE x \in S : \A y \in S \ {x} : StrLess(x, y)
         IN  <<m>> \o Sorted(S \ {m})

\* str.replace(old, new) for one-character old and new.
Replace(s, old, new) == [i \in 1..Len(s) |-> IF s[i] = old THEN new ELSE s[i]]

\* s.split(sep)[0]: the text before the first sep, all of s when it has none.
RECURSIVE SplitFirst(_, _)
SplitFirst(s, sep) ==
    IF s = <<>> \/ s[1] = sep THEN <<>>
    ELSE <<s[1]>> \o SplitFirst(Tail(s), sep)

\* All strings over alphabet A of length at most n.
RECURSIVE StringsUpTo(_, _)
StringsUpTo(A, n) ==
    IF n = 0 THEN {<<>>}
    ELSE LET shorter == StringsUpTo(A, n - 1)
         IN  shorter \cup {Append(s, c) : s \in shorter, c \in A}

\* An optional value: Python's None, or a value.
None == <<>>

Some(x) == <<x>>

----------------------------------------------------------------------------
(* normalize: generate_index.py:11-12 and verify_mirror.py:9-10 (identical) *)

\* re.sub(r"[-_.]+", "-", s): every maximal run of separators becomes one "-".
\* prev_sep says the character before s is a separator already replaced.
RECURSIVE SubSeparatorRuns(_, _)
SubSeparatorRuns(s, prev_sep) ==
    IF s = <<>> THEN <<>>
    ELSE IF s[1] \in Separators
         THEN (IF prev_sep THEN <<>> ELSE <<"-">>) \o SubSeparatorRuns(Tail(s), TRUE)
         ELSE <<s[1]>> \o SubSeparatorRuns(Tail(s), FALSE)

\* A plausible slip: the pattern without "+", each separator replaced alone.
normalize_each(s) == Lower([i \in 1..Len(s) |-> IF s[i] \in Separators THEN "-" ELSE s[i]])

normalize(s) == Lower(SubSeparatorRuns(s, FALSE))

----------------------------------------------------------------------------
(* extract_package_name: generate_index.py:15-24 *)

WHL == <<".", "w", "h", "l">>

TARGZ == <<".", "t", "a", "r", ".", "g", "z">>

ZIP == <<".", "z", "i", "p">>

TXT == <<".", "t", "x", "t">>

\* The ends k of the candidate group(1) = s[1..k] for re.match(r"^(.+?)-\d+", s):
\* at least one character (.+), then "-" and a digit.
SdistMatchEnds(s) ==
    {k \in 1..(Len(s) - 2) : s[k + 1] = "-" /\ s[k + 2] \in Digits}

\* match.group(1) of re.match(r"^(.+?)-\d+", s), or None: the lazy .+? takes the
\* shortest candidate.
SdistMatch(s) ==
    LET ends == SdistMatchEnds(s)
    IN  IF ends = {} THEN None
        ELSE Some(SubSeq(s, 1, CHOOSE k \in ends : \A j \in ends : k <= j))

\* A plausible slip: the wheel's name segment returned as it is, not normalized.
extract_package_name_raw(f) ==
    IF EndsWith(f, WHL) THEN Some(SplitFirst(f, "-"))
    ELSE IF EndsWith(f, TARGZ) \/ EndsWith(f, ZIP)
         THEN LET m == SdistMatch(f) IN IF m # None THEN Some(normalize(m[1])) ELSE None
         ELSE None

\* A plausible slip: a greedy (.+) takes the longest candidate.
extract_package_name_greedy(f) ==
    IF EndsWith(f, WHL) THEN Some(normalize(SplitFirst(f, "-")))
    ELSE IF EndsWith(f, TARGZ) \/ EndsWith(f, ZIP)
         THEN LET ends == SdistMatchEnds(f)
              IN  IF ends = {} THEN None
                  ELSE Some(normalize(SubSeq(f, 1, CHOOSE k \in ends : \A j \in ends : k >= j)))
         ELSE None

extract_package_name(f) ==
    IF EndsWith(f, WHL) THEN Some(normalize(SplitFirst(f, "-")))
    ELSE IF EndsWith(f, TARGZ)
         THEN LET m == SdistMatch(f) IN IF m # None THEN Some(normalize(m[1])) ELSE None
         ELSE IF EndsWith(f, ZIP)
              THEN LET m == SdistMatch(f) IN IF m # None THEN Some(normalize(m[1])) ELSE None
              ELSE None

----------------------------------------------------------------------------
(* sha256_file: generate_index.py:27-32 *)

\* The size of one f.read() in sha256_file.
ChunkSize == 8192

\* hashlib's digest is modelled by a 16-bit polynomial hash: a deterministic
\* function of the bytes fed to it, in order, that does not collide on the
\* file contents of the model.
HashInit == 7

RECURSIVE HashUpdate(_, _)
HashUpdate(h, chunk) ==
    IF chunk = <<>> THEN h
    ELSE HashUpdate((h * 31 + chunk[1] + 1) % 65536, Tail(chunk))

HexDigits == <<"0", "1", "2", "3", "4", "5", "6", "7", "8", "9", "a", "b", "c", "d", "e", "f">>

\* h.hexdigest(): the state as four hexadecimal digits.
HexDigest(h) ==
    <<HexDigits[((h \div 4096) % 16) + 1], HexDigits[((h \div 256) % 16) + 1],
      HexDigits[((h \div 16) % 16) + 1], HexDigits[(h % 16) + 1]>>

\* for chunk in iter(lambda: f.read(8192), b""): h.update(chunk)
RECURSIVE ReadChunks(_, _)
ReadChunks(bytes, h) ==
    IF bytes = <<>> THEN h
    ELSE LET n == IF Len(bytes) < ChunkSize THEN Len(bytes) ELSE ChunkSize
         IN  ReadChunks(SubSeq(bytes, n + 1, Len(bytes)), HashUpdate(h, SubSeq(bytes, 1, n)))

sha256_file(bytes) == HexDigest(ReadChunks(bytes, HashInit))

----------------------------------------------------------------------------
(* generate_index: generate_index.py:35-77 *)

\* f.is_file()
IsFile(dir, f) == dir[f].kind = "file"

\* sorted(packages_dir.iterdir()): the entry names in str order.
Listing(dir) == Sorted(DOMAIN dir)

\* package_files[pkg_name].append(entry) on a defaultdict(list).
AppendTo(package_files, pkg_name, entry) ==
    [p \in DOMAIN package_files \cup {pkg_name} |->
        IF p = pkg_name
        THEN (IF p \in DOMAIN package_files THEN package_files[p] ELSE <<>>) \o <<entry>>
        ELSE package_files[p]]

\* The digest recorded for entry f of the directory.
\* A plausible slip: the digest of the first listed entry is reused for all.
FileDigest_first(dir, f) == sha256_file(dir[Listing(dir)[1]].bytes)

FileDigest(dir, f) == sha256_file(dir[f].bytes)

\* The scanning loop, lines 38-44, over the rest of the listing.
RECURSIVE ScanFiles(_, _, _)
ScanFiles(dir, listing, package_files) ==
    IF listing = <<>> THEN package_files
    ELSE LET f == Head(listing)
             pkg_name == extract_package_name(f)
         IN  IF ~IsFile(dir, f) THEN ScanFiles(dir, Tail(listing), package_files)
             ELSE IF pkg_name # None /\ pkg_name[1] # <<>>
                  THEN ScanFiles(dir, Tail(listing),
                                 AppendTo(package_files, pkg_name[1], <<f, FileDigest(dir, f)>>))
                  ELSE ScanFiles(dir, Tail(listing), package_files)

\* One <a> element: its href and its text.
Anchor(href, text) == [href |-> href, text |-> text]

\* simple/index.html, lines 49-58: one link per key of package_files, sorted.
\* A plausible slip: the keys taken in the order the scan met them.
RootPage_unsorted(package_files) ==
    LET met == Sorted({package_files[p][1][1] : p \in DOMAIN package_files})
        key(i) == CHOOSE p \in DOMAIN package_files : package_files[p][1][1] = met[i]
    IN  [title |-> "Simple Index",
         links |-> [i \in 1..Len(met) |-> Anchor(<<key(i), "/">>, key(i))]]

RootPage(package_files) ==
    LET keys == Sorted(DOMAIN package_files)
    IN  [title |-> "Simple Index",
         links |-> [i \in 1..Len(keys) |-> Anchor(<<keys[i], "/">>, keys[i])]]

\* simple/<pkg_name>/index.html, lines 64-74: one link per (filename, sha).
PackagePage(pkg_name, files) ==
    [title |-> pkg_name,
     links |-> [i \in 1..Len(files) |->
                   Anchor(<<"../../packages/", files[i][1], "#sha256=", files[i][2]>>,
                          files[i][1])]]

\* Path.write_text: the page replaces what the path held.
\* A plausible slip: the file opened for appending, the links added to the old ones.
WritePage_append(pages, pkg_name, page) ==
    [p \in DOMAIN pages \cup {pkg_name} |->
        IF p = pkg_name
        THEN (IF p \in DOMAIN pages
              THEN [page EXCEPT !.links = pages[p].links \o page.links]
              ELSE page)
        ELSE pages[p]]

WritePage(pages, pkg_name, page) ==
    [p \in DOMAIN pages \cup {pkg_name} |-> IF p = pkg_name THEN page ELSE pages[p]]

\* The writing loop, lines 60-74, over the rest of the sorted items.
RECURSIVE WritePackagePages(_, _, _)
WritePackagePages(pages, keys, package_files) ==
    IF keys = <<>> THEN pages
    ELSE WritePackagePages(
             WritePage(pages, Head(keys), PackagePage(Head(keys), package_files[Head(keys)])),
             Tail(keys), package_files)

\* The output tree after generate_index(dir, index_dir) on the tree `index`.
generate_index(dir, index) ==
    LET package_files == ScanFiles(dir, Listing(dir), <<>>)
    IN  [root |-> Some(RootPage(package_files)),
         pages |-> WritePackagePages(index.pages, Sorted(DOMAIN package_files), package_files)]

----------------------------------------------------------------------------
(* verify: verify_mirror.py:13-45 *)

\* The whitespace str.strip() removes, of the characters of the model.
Whitespace == {" ", "\n"}

RECURSIVE LStrip(_)
LStrip(s) == IF s # <<>> /\ s[1] \in Whitespace THEN LStrip(Tail(s)) ELSE s

RECURSIVE RStrip(_)
RStrip(s) ==
    IF s # <<>> /\ s[Len(s)] \in Whitespace THEN RStrip(SubSeq(s, 1, Len(s) - 1)) ELSE s

\* str.strip()
Strip(s) == RStrip(LStrip(s))

\* str.split(sep) for a one-character sep: always at least one piece.
RECURSIVE Split(_, _)
Split(s, sep) ==
    IF \A i \in 1..Len(s) : s[i] # sep THEN <<s>>
    ELSE LET first == SplitFirst(s, sep)
         IN  <<first>> \o Split(SubSeq(s, Len(first) + 2, Len(s)), sep)

\* Path(requirements_file).read_text(): every line of the file ends in "\n".
RECURSIVE ReadText(_)
ReadText(lines) ==
    IF lines = <<>> THEN <<>> ELSE Head(lines) \o <<"\n">> \o ReadText(Tail(lines))

\* The characters of the class [a-zA-Z0-9_.\-\[\]].
NameChars == LowerLetters \cup UpperLetters \cup Digits \cup {"_", ".", "-", "[", "]"}

\* re.match(r"^([a-zA-Z0-9_.\-\[\]]+)", req): group(1), or None.
RECURSIVE LeadingRun(_)
LeadingRun(s) ==
    IF s = <<>> \/ s[1] \notin NameChars THEN <<>>
    ELSE <<s[1]>> \o LeadingRun(Tail(s))

NameMatch(req) == IF LeadingRun(req) = <<>> THEN None ELSE Some(LeadingRun(req))

\* available, line 15: the lowercased names of the regular files.
Available(dir) == {Lower(f) : f \in {g \in DOMAIN dir : IsFile(dir, g)}}

\* found, lines 32-35.
\* A plausible slip: the dot variant left out.
Found_no_dot(available, pkg_name) ==
    LET pkg_underscore == Replace(pkg_name, "-", "_")
    IN  \E f \in available :
            \/ StartsWith(f, pkg_name \o <<"-">>)
            \/ StartsWith(f, pkg_underscore \o <<"-">>)

\* A plausible slip: the "-" after the name left out of the prefix.
Found_no_boundary(available, pkg_name) ==
    LET pkg_underscore == Replace(pkg_name, "-", "_")
        pkg_dot == Replace(pkg_name, "-", ".")
    IN  \E f \in available :
            \/ StartsWith(f, pkg_name)
            \/ StartsWith(f, pkg_underscore)
            \/ StartsWith(f, pkg_dot)

Found(available, pkg_name) ==
    LET pkg_underscore == Replace(pkg_name, "-", "_")
        pkg_dot == Replace(pkg_name, "-", ".")
    IN  \E f \in available :
            \/ StartsWith(f, pkg_name \o <<"-">>)
            \/ StartsWith(f, pkg_underscore \o <<"-">>)
            \/ StartsWith(f, pkg_dot \o <<"-">>)

\* The skip test of line 21.
\* A plausible slip: option lines (leading "-") not skipped.
Skipped_no_option(req) == req = <<>> \/ req[1] = "#"

Skipped(req) == req = <<>> \/ req[1] = "#" \/ req[1] = "-"

\* missing.append(req)
\* A plausible slip: the requirement put at the front of the list.
Missing_prepend(missing, req) == <<req>> \o missing

Missing_append(missing, req) == Append(missing, req)

\* The loop of lines 19-37 over the rest of reqs; acc = [missing, checked].
RECURSIVE CheckReqs(_, _, _)
CheckReqs(reqs, available, acc) ==
    IF reqs = <<>> THEN acc
    ELSE LET req == Strip(Head(reqs))
             match == NameMatch(req)
         IN  IF Skipped(req) THEN CheckReqs(Tail(reqs), available, acc)
             ELSE IF match = None THEN CheckReqs(Tail(reqs), available, acc)
             ELSE LET raw_name == SplitFirst(match[1], "[")
                      pkg_name == normalize(raw_name)
                      found == Found(available, pkg_name)
                  IN  CheckReqs(Tail(reqs), available,
                                [checked |-> acc.checked + 1,
                                 missing |-> IF found THEN acc.missing
                                             ELSE Missing_append(acc.missing, req)])

\* verify(requirements_file, packages_dir): what it prints and its exit status
\* (1 from sys.exit(1), 0 when the function returns).
verify(lines, dir) ==
    LET reqs == Split(Strip(ReadText(lines)), "\n")
        acc == CheckReqs(reqs, Available(dir), [checked |-> 0, missing |-> <<>>])
    IN  IF acc.missing # <<>>
        THEN [exit |-> 1, checked |-> acc.checked, missing |-> acc.missing,
              stdout |-> <<<<"MISSING", Len(acc.missing), acc.checked>>>>
                            \o [i \in 1..Len(acc.missing) |-> <<"  - ", acc.missing[i]>>]]
        ELSE [exit |-> 0, checked |-> acc.checked, missing |-> <<>>,
              stdout |-> <<<<"All", acc.checked, "packages present in mirror.">>>>]

----------------------------------------------------------------------------
(* Values of the variables a specification does not use *)

NoDirectory == <<>>

NoIndex == [root |-> None, pages |-> <<>>]

NoReport == [exit |-> -1, checked |-> 0, missing |-> <<>>, stdout |-> <<>>]

NoNormalized == [done |-> FALSE, of_name |-> <<>>, of_variant |-> <<>>, twice |-> <<>>]

NoClassified == [done |-> FALSE, pkg_name |-> None]

----------------------------------------------------------------------------
(* SpecNormalize: normalize applied to a name and to its respellings *)

\* Bound: the longest generated name.
MaxNameLen == 3

NameAlphabet == {"a", "B", "-", "_", "."}

Foo_Bar_Baz == <<"F", "o", "o", "_", "B", "a", "r", ".", "B", "a", "z">>

foo_bar_baz == <<"f", "o", "o", "-", "b", "a", "r", "-", "b", "a", "z">>

Names == StringsUpTo(NameAlphabet, MaxNameLen) \cup {Foo_Bar_Baz, foo_bar_baz}

\* str.swapcase() on one character.
SwapCase(c) ==
    IF c \in UpperLetters THEN Ascii[Ord(c) + 29]
    ELSE IF c \in LowerLetters THEN Ascii[Ord(c) - 29]
    ELSE c

InitNormalize ==
    /\ name \in Names
    /\ variant = name
    /\ normalized = NoNormalized
    /\ packages_dir = NoDirectory
    /\ index_dir = NoIndex
    /\ pc = "changed"
    /\ requirements = <<>>
    /\ report = NoReport
    /\ filename = <<>>
    /\ classified = NoClassified

NormalizeFrame ==
    UNCHANGED <<packages_dir, index_dir, pc, requirements, report, filename, classified>>

\* The variant changes the case of one letter.
RespellCase ==
    /\ \E i \in 1..Len(variant) :
          /\ variant[i] \in UpperLetters \cup LowerLetters
          /\ variant' = [variant EXCEPT ![i] = SwapCase(variant[i])]
    /\ normalized' = NoNormalized
    /\ UNCHANGED name
    /\ NormalizeFrame

\* The variant writes one separator as another of "-", "_", ".".
RespellSeparator ==
    /\ \E i \in 1..Len(variant), c \in Separators :
          /\ variant[i] \in Separators
          /\ c # variant[i]
          /\ variant' = [variant EXCEPT ![i] = c]
    /\ normalized' = NoNormalized
    /\ UNCHANGED name
    /\ NormalizeFrame

\* The variant lengthens a run of separators by one.
RespellLongerRun ==
    /\ Len(variant) < MaxNameLen + 1
    /\ \E i \in 1..Len(variant), c \in Separators :
          /\ variant[i] \in Separators
          /\ variant' = SubSeq(variant, 1, i) \o <<c>> \o SubSeq(variant, i + 1, Len(variant))
    /\ normalized' = NoNormalized
    /\ UNCHANGED name
    /\ NormalizeFrame

\* The variant shortens a run of two or more separators by one.
RespellShorterRun ==
    /\ \E i \in 1..(Len(variant) - 1) :
          /\ variant[i] \in Separators
          /\ variant[i + 1] \in Separators
          /\ variant' = SubSeq(variant, 1, i - 1) \o SubSeq(variant, i + 1, Len(variant))
    /\ normalized' = NoNormalized
    /\ UNCHANGED name
    /\ NormalizeFrame

\* normalize is called on the name, on the variant and on its own result.
Normalize ==
    /\ ~normalized.done
    /\ normalized' = [done |-> TRUE,
                      of_name |-> normalize(name),
                      of_variant |-> normalize(variant),
                      twice |-> normalize(normalize(name))]
    /\ UNCHANGED <<name, variant>>
    /\ NormalizeFrame

NextNormalize ==
    \/ RespellCase
    \/ RespellSeparator
    \/ RespellLongerRun
    \/ RespellShorterRun
    \/ Normalize

SpecNormalize == InitNormalize /\ [][NextNormalize]_vars

\* C5: normalize is idempotent; its result has no uppercase letter, no "_" or
\* ".", and no two adjacent "-"; and a name and any respelling of it that
\* differs only in letter case or in the separators used (which of "-", "_",
\* ".", and how many in a run) normalize to the same string, with
\* normalize("Foo_Bar.Baz") = normalize("foo-bar-baz") = "foo-bar-baz".
C5_NormalizeIdempotentInsensitive ==
    normalized.done =>
        LET n == normalized.of_name
        IN  /\ normalized.twice = n
            /\ \A i \in 1..Len(n) : n[i] \notin UpperLetters \cup {"_", "."}
            /\ \A i \in 1..(Len(n) - 1) : ~(n[i] = "-" /\ n[i + 1] = "-")
            /\ normalized.of_variant = n
            /\ name \in {Foo_Bar_Baz, foo_bar_baz} => n = foo_bar_baz

\* Reached: Foo_Bar.Baz respelled as foo-bar-baz, both normalized.
C5_Witness ==
    /\ normalized.done
    /\ name = Foo_Bar_Baz
    /\ variant = foo_bar_baz
    /\ normalized.of_name = foo_bar_baz

\* Reached: a name with a run of mixed separators and an uppercase letter.
C5_WitnessRun ==
    /\ normalized.done
    /\ name = <<"B", "_", ".">>
    /\ variant = <<"b", "-">>
    /\ normalized.of_name = <<"b", "-">>

----------------------------------------------------------------------------
(* SpecClassify: extract_package_name applied to a filename *)

\* Bound: the longest generated filename stem (the text before the suffix).
MaxStemLen == 5

StemAlphabet == {"a", "B", "-", ".", "1"}

Suffixes == {WHL, TARGZ, ZIP, TXT}

my_package_1_2_3_tar_gz ==
    <<"m", "y", "-", "p", "a", "c", "k", "a", "g", "e", "-", "1", ".", "2", ".", "3",
      ".", "t", "a", "r", ".", "g", "z">>

my_package == <<"m", "y", "-", "p", "a", "c", "k", "a", "g", "e">>

Filenames ==
    {stem \o suffix : stem \in StringsUpTo(StemAlphabet, MaxStemLen), suffix \in Suffixes}
        \cup {my_package_1_2_3_tar_gz}

InitClassify ==
    /\ filename \in Filenames
    /\ classified = NoClassified
    /\ packages_dir = NoDirectory
    /\ index_dir = NoIndex
    /\ pc = "changed"
    /\ requirements = <<>>
    /\ report = NoReport
    /\ name = <<>>
    /\ variant = <<>>
    /\ normalized = NoNormalized

Classify ==
    /\ ~classified.done
    /\ classified' = [done |-> TRUE, pkg_name |-> extract_package_name(filename)]
    /\ UNCHANGED <<filename, packages_dir, index_dir, pc, requirements, report,
                   name, variant, normalized>>

NextClassify == Classify

SpecClassify == InitClassify /\ [][NextClassify]_vars

IsSdistName(f) == EndsWith(f, TARGZ) \/ EndsWith(f, ZIP)

\* The positions from `from` on at which f has a "-" immediately followed by a digit.
DashDigitAt(f, from) ==
    {i \in from..(Len(f) - 1) : f[i] = "-" /\ f[i + 1] \in Digits}

\* What C6 says the classifier returns, the first "-digit" sought from `from`.
SdistNameFrom(f, from) ==
    LET at == DashDigitAt(f, from)
    IN  IF at = {} THEN None
        ELSE Some(normalize(SubSeq(f, 1, (CHOOSE i \in at : \A j \in at : i <= j) - 1)))

\* C6 as stated: for a filename ending in ".tar.gz" or ".zip" the classifier
\* returns normalize(p), p the text before the first "-" immediately followed
\* by a digit, none when there is no such "-", and never an empty name.
C6_Original ==
    (classified.done /\ IsSdistName(filename)) =>
        /\ classified.pkg_name = SdistNameFrom(filename, 1)
        /\ classified.pkg_name # Some(<<>>)

\* C6 as amended: the "-" immediately followed by a digit is sought from the
\* second character on (the name before it is never empty): the classifier
\* returns normalize(p) for the text p before the first such "-", none when
\* there is none, and never an empty name; "my-package-1.2.3.tar.gz" gives
\* "my-package".
C6_SdistNameBeforeVersion ==
    (classified.done /\ IsSdistName(filename)) =>
        /\ classified.pkg_name = SdistNameFrom(filename, 2)
        /\ classified.pkg_name # Some(<<>>)
        /\ filename = my_package_1_2_3_tar_gz => classified.pkg_name = Some(my_package)

\* Reached: a hyphenated sdist name is split before its version.
C6_Witness ==
    /\ classified.done
    /\ filename = my_package_1_2_3_tar_gz
    /\ classified.pkg_name = Some(my_package)

\* Reached: an sdist filename without a digit-led segment classifies as none.
C6_WitnessNone ==
    /\ classified.done
    /\ filename = <<"a", "-", "B">> \o ZIP
    /\ classified.pkg_name = None

----------------------------------------------------------------------------
(* SpecIndex: the artifact directory changes between generate_index runs *)
(* into one output directory                                              *)

\* Bound: the most entries the artifact directory holds at once.
MaxEntries == 3

requests_whl ==
    <<"r", "e", "q", "u", "e", "s", "t", "s", "-", "2", ".", "3", "1", ".", "0", "-",
      "p", "y", "3", "-", "n", "o", "n", "e", "-", "a", "n", "y", ".", "w", "h", "l">>

requests_tar_gz ==
    <<"r", "e", "q", "u", "e", "s", "t", "s", "-", "2", ".", "3", "1", ".", "0",
      ".", "t", "a", "r", ".", "g", "z">>

requests == <<"r", "e", "q", "u", "e", "s", "t", "s">>

Z_1_whl == <<"Z", "-", "1">> \o WHL

dash_1_whl == <<"-", "1">> \o WHL

a_txt == <<"a">> \o TXT

\* The entry names the directory may hold: the wheel and the sdist of
\* "requests", a wheel of "z" that sorts before them in the listing ("Z" < "r")
\* and after them by package name, a wheel with an empty name segment, and a
\* file that is no artifact.
EntryNames == {requests_whl, requests_tar_gz, Z_1_whl, dash_1_whl, a_txt}

\* The contents a file may have: empty, or two bytes.
Contents == {<<>>, <<1, 0>>}

RegularFile(bytes) == [kind |-> "file", bytes |-> bytes]

Subdirectory == [kind |-> "dir", bytes |-> <<>>]

InitIndex ==
    /\ packages_dir = NoDirectory
    /\ index_dir = NoIndex
    /\ pc = "changed"
    /\ requirements = <<>>
    /\ report = NoReport
    /\ name = <<>>
    /\ variant = <<>>
    /\ normalized = NoNormalized
    /\ filename = <<>>
    /\ classified = NoClassified

IndexFrame ==
    UNCHANGED <<requirements, report, name, variant, normalized, filename, classified>>

\* A collaborator puts a file into the artifact directory.
AddFile ==
    /\ Cardinality(DOMAIN packages_dir) < MaxEntries
    /\ \E f \in EntryNames \ DOMAIN packages_dir, bytes \in Contents :
          packages_dir' = [g \in DOMAIN packages_dir \cup {f} |->
                              IF g = f THEN RegularFile(bytes) ELSE packages_dir[g]]
    /\ pc' = "changed"
    /\ UNCHANGED index_dir
    /\ IndexFrame

\* A collaborator makes a subdirectory in the artifact directory.
MakeSubdirectory ==
    /\ Cardinality(DOMAIN packages_dir) < MaxEntries
    /\ \E f \in EntryNames \ DOMAIN packages_dir :
          packages_dir' = [g \in DOMAIN packages_dir \cup {f} |->
                              IF g = f THEN Subdirectory ELSE packages_dir[g]]
    /\ pc' = "changed"
    /\ UNCHANGED index_dir
    /\ IndexFrame

\* A collaborator removes an entry of the artifact directory.
RemoveEntry ==
    /\ \E f \in DOMAIN packages_dir :
          packages_dir' = [g \in DOMAIN packages_dir \ {f} |-> packages_dir[g]]
    /\ pc' = "changed"
    /\ UNCHANGED index_dir
    /\ IndexFrame

\* One run of generate_index(packages_dir, index_dir). pc tells a run on an
\* unchanged directory ("regenerated") from the first one after a change.
GenerateIndex ==
    /\ index_dir' = generate_index(packages_dir, index_dir)
    /\ pc' = IF pc = "changed" THEN "generated" ELSE "regenerated"
    /\ UNCHANGED packages_dir
    /\ IndexFrame

NextIndex ==
    \/ AddFile
    \/ MakeSubdirectory
    \/ RemoveEntry
    \/ GenerateIndex

SpecIndex == InitIndex /\ [][NextIndex]_vars

\* A generate_index run has completed and the directory has not changed since.
JustGenerated == pc \in {"generated", "regenerated"}

\* The texts of a page's links, in order.
LinkTexts(page) == [i \in 1..Len(page.links) |-> page.links[i].text]

Range(seq) == {seq[i] : i \in 1..Len(seq)}

\* seq is strictly ascending in str order (so it has no duplicates).
Ascending(seq) == \A i, j \in 1..Len(seq) : i < j => StrLess(seq[i], seq[j])

\* The packages with a page simple/<n>/index.html in the output tree.
PagesPresent == DOMAIN index_dir.pages

\* The regular files of the directory the classifier gives package name n.
ArtifactsOf(n) ==
    {f \in DOMAIN packages_dir :
        IsFile(packages_dir, f) /\ extract_package_name(f) = Some(n)}

\* C1: after any sequence of directory changes and generate_index runs into
\* the same output directory, the output tree left by the latest run equals
\* the tree a run into an empty output directory produces from the current
\* directory, so no simple/<name>/index.html exists for a package that has
\* no artifact now.
C1_RebuildsFullIndex ==
    JustGenerated =>
        /\ index_dir = generate_index(packages_dir, NoIndex)
        /\ \A n \in PagesPresent : ArtifactsOf(n) # {}

\* C2: a generate_index run on an unchanged artifact directory leaves the
\* output tree exactly as the run before it left it (the same pages, page
\* contents and link order), whatever the output directory held before.
C2_RebuildIdempotent == [][pc' = "regenerated" => index_dir' = index_dir]_vars

\* Reached: a second run on an unchanged directory, over an output tree that
\* holds a page with two links and a page left by an earlier run.
C2_Witness ==
    /\ pc = "regenerated"
    /\ DOMAIN packages_dir = {requests_whl, requests_tar_gz}
    /\ PagesPresent = {requests, <<"z">>}
    /\ Len(index_dir.pages[requests].links) = 2

\* The packages the root page links: the pages the latest run wrote.
RootNames == Range(LinkTexts(index_dir.root[1]))

\* What C7 says of the index written for the regular files in `artifacts`
\* (those it counts as classifiable), `named` the package names among them.
MirrorsGrouping(artifacts, named) ==
    /\ index_dir.root # None
    /\ RootNames = named
    /\ Ascending(LinkTexts(index_dir.root[1]))
    /\ \A n \in named :
          /\ n \in PagesPresent
          /\ Range(LinkTexts(index_dir.pages[n])) = artifacts \cap ArtifactsOf(n)
          /\ Ascending(LinkTexts(index_dir.pages[n]))
    /\ \A f \in artifacts :
          Cardinality({n \in named \cap PagesPresent :
                          f \in Range(LinkTexts(index_dir.pages[n]))}) = 1
    /\ \A f \in DOMAIN packages_dir \ artifacts :
          \A n \in named \cap PagesPresent : f \notin Range(LinkTexts(index_dir.pages[n]))

\* The regular files the classifier gives a name, the empty name included.
Classifiable ==
    {f \in DOMAIN packages_dir :
        IsFile(packages_dir, f) /\ extract_package_name(f) # None}

\* The regular files the classifier gives a non-empty name.
ClassifiableNamed == {f \in Classifiable : extract_package_name(f) # Some(<<>>)}

\* C7 as stated: after a run the root page has exactly one link per distinct
\* package name among the classifiable regular files, ascending by name; for
\* each such name n simple/<n>/index.html exists with exactly one link per
\* artifact classified as n, in listing order; every classifiable artifact is
\* linked from exactly one package page, every other entry from none.
C7_Original ==
    JustGenerated =>
        MirrorsGrouping(Classifiable, {extract_package_name(f)[1] : f \in Classifiable})

\* C7 as amended: the same, of the regular files that extract_package_name
\* gives a non-empty name; a file it gives the empty name (a wheel whose
\* filename starts with "-") is linked from no page, like a file it gives none.
C7_IndexMirrorsGrouping ==
    JustGenerated =>
        MirrorsGrouping(ClassifiableNamed,
                        {extract_package_name(f)[1] : f \in ClassifiableNamed})

\* Reached: the wheel of "z" and the sdist of "requests", the root page
\* listing requests before z although Z-1.whl is listed first.
C7_Witness ==
    /\ JustGenerated
    /\ DOMAIN packages_dir = {Z_1_whl, requests_tar_gz}
    /\ \A f \in DOMAIN packages_dir : IsFile(packages_dir, f)
    /\ LinkTexts(index_dir.root[1]) = <<requests, <<"z">> >>

\* C8: every link of every package page a run wrote has the target
\* "../../packages/<filename>#sha256=<digest>", <filename> the link's own
\* artifact and <digest> the digest of that artifact's bytes; two artifacts of
\* one package with different contents carry different digests.
C8_LinksCarryOwnDigest ==
    (JustGenerated /\ index_dir.root # None) =>
        \A n \in RootNames :
            LET links == index_dir.pages[n].links
            IN  /\ \A i \in 1..Len(links) :
                      /\ links[i].text \in DOMAIN packages_dir
                      /\ links[i].href =
                            <<"../../packages/", links[i].text, "#sha256=",
                              sha256_file(packages_dir[links[i].text].bytes)>>
                /\ \A i, j \in 1..Len(links) :
                      packages_dir[links[i].text].bytes # packages_dir[links[j].text].bytes
                          => links[i].href[4] # links[j].href[4]

\* Reached: the two artifacts of "requests" with different contents, linked
\* from one page with different digests.
C8_Witness ==
    /\ JustGenerated
    /\ DOMAIN packages_dir = {requests_whl, requests_tar_gz}
    /\ packages_dir[requests_whl].bytes # packages_dir[requests_tar_gz].bytes
    /\ LinkTexts(index_dir.pages[requests]) = <<requests_whl, requests_tar_gz>>
    /\ index_dir.pages[requests].links[1].href[4] # index_dir.pages[requests].links[2].href[4]

----------------------------------------------------------------------------
(* SpecVerify: verify and generate_index run on one artifact directory *)

\* Bound: the longest generated requirement name.
MaxReqNameLen == 2

\* Bound: the longest generated name part of an artifact filename.
MaxPartLen == 2

\* Bound: the most lines of a requirements file built from RequirementLines.
MaxLines == 2

ReqAlphabet == {"a", "B", "-", "_", "."}

PartAlphabet == {"a", "B", "-", "_", "."}

Pin == <<"=", "=", "1">>

\* One pinned requirement: every name over ReqAlphabet, then "==1"; and one
\* that has an extras marker and no name.
PinnedLines ==
    {token \o Pin : token \in StringsUpTo(ReqAlphabet, MaxReqNameLen)}
        \cup {<<"[", "x", "]">> \o Pin}

\* What follows the name part in a generated entry name.
EntryTails == {<<"-", "1">> \o WHL, <<"-", "1">> \o ZIP, <<"-", "1">> \o TXT}

\* A directory with one regular file: every name part over PartAlphabet.
OneFileDirs ==
    {[f \in {part \o tail} |-> RegularFile(<<>>)] :
        part \in StringsUpTo(PartAlphabet, MaxPartLen), tail \in EntryTails}

PKG_Name_pin ==
    <<"P", "K", "G", "-", "N", "a", "m", "e", "=", "=", "1", ".", "0", ".", "0">>

pkg_name_whl ==
    <<"p", "k", "g", "_", "n", "a", "m", "e", "-", "1", ".", "0", ".", "0", "-",
      "p", "y", "3", "-", "n", "o", "n", "e", "-", "a", "n", "y", ".", "w", "h", "l">>

foo_pin == <<"f", "o", "o", "=", "=", "1", ".", "0">>

foobar_tar_gz == <<"f", "o", "o", "b", "a", "r", "-", "1", ".", "0">> \o TARGZ

numpy_pin == <<"n", "u", "m", "p", "y", "=", "=", "1", ".", "0">>

scipy_whl ==
    <<"s", "c", "i", "p", "y", "-", "1", ".", "0", "-",
      "p", "y", "3", "-", "n", "o", "n", "e", "-", "a", "n", "y", ".", "w", "h", "l">>

a_1_whl == <<"a", "-", "1">> \o WHL

b_1_zip == <<"b", "-", "1">> \o ZIP

\* The scenarios of the specification's testable properties.
ScenarioInputs ==
    {<<<<PKG_Name_pin>>, [f \in {pkg_name_whl} |-> RegularFile(<<>>)]>>,
     <<<<foo_pin>>, [f \in {foobar_tar_gz} |-> RegularFile(<<>>)]>>,
     <<<<numpy_pin>>, [f \in {scipy_whl} |-> RegularFile(<<>>)]>>}

\* The lines of a longer requirements file: blank, whitespace only, a
\* comment, an option, a line that starts with no name character, pinned
\* requirements bare, padded with spaces and with an extras marker.
RequirementLines ==
    {<<>>, <<" ">>, <<"#", "a">>, <<"-", "r">>, <<"@", "a">>,
     <<"a">> \o Pin, <<" ", "b">> \o Pin \o <<" ">>, <<"B", "[", "x", "]">> \o Pin,
     numpy_pin}

RECURSIVE SeqsUpTo(_, _)
SeqsUpTo(S, n) ==
    IF n = 0 THEN {<<>>}
    ELSE LET shorter == SeqsUpTo(S, n - 1)
         IN  shorter \cup {Append(q, x) : q \in shorter, x \in S}

\* The directories a longer requirements file is verified against: empty,
\* one artifact, an artifact's name on a subdirectory, two artifacts.
ListDirs ==
    {NoDirectory,
     [f \in {a_1_whl} |-> RegularFile(<<>>)],
     [f \in {b_1_zip} |-> RegularFile(<<>>)],
     [f \in {a_1_whl} |-> Subdirectory],
     [f \in {a_1_whl, b_1_zip} |-> RegularFile(<<>>)],
     [f \in {a_1_whl, b_1_zip} |-> IF f = a_1_whl THEN Subdirectory ELSE RegularFile(<<>>)]}

VerifyInputs ==
    {<<<<line>>, dir>> : line \in PinnedLines, dir \in OneFileDirs}
        \cup ScenarioInputs
        \cup (SeqsUpTo(RequirementLines, MaxLines) \X ListDirs)

InitVerify ==
    /\ \E input \in VerifyInputs :
          /\ requirements = input[1]
          /\ packages_dir = input[2]
    /\ index_dir = NoIndex
    /\ pc = "changed"
    /\ report = NoReport
    /\ name = <<>>
    /\ variant = <<>>
    /\ normalized = NoNormalized
    /\ filename = <<>>
    /\ classified = NoClassified

\* One run of verify(requirements_file, packages_dir).
Verify ==
    /\ report = NoReport
    /\ report' = verify(requirements, packages_dir)
    /\ UNCHANGED <<packages_dir, index_dir, pc, requirements,
                   name, variant, normalized, filename, classified>>

\* One run of generate_index into the empty output directory.
BuildIndex == pc = "changed" /\ GenerateIndex

NextVerify ==
    \/ Verify
    \/ BuildIndex

SpecVerify == InitVerify /\ [][NextVerify]_vars

\* verify has run.
Verified == report.exit # -1

\* A line of the file as verify reads it: surrounding whitespace stripped.
Stripped(i) == Strip(requirements[i])

\* Line i is blank, a comment or an option.
IsSkippedLine(i) ==
    \/ Stripped(i) = <<>>
    \/ Stripped(i)[1] = "#"
    \/ Stripped(i)[1] = "-"

\* Line i begins with a name character: a name token can be taken from it.
HasNameToken(i) == Stripped(i) # <<>> /\ Stripped(i)[1] \in NameChars

\* The normalized name n of the requirement on line i: its leading run of
\* name characters, cut at the first "[", normalized.
RequirementName(i) == normalize(SplitFirst(LeadingRun(Stripped(i)), "["))

\* The spellings of n that verify looks for: n, n with "_" for "-", n with "." for "-".
Spellings(n) == {n, Replace(n, "-", "_"), Replace(n, "-", ".")}

\* Some regular file's lowercased name starts with a spelling of n and a "-".
HasPrefixedFile(n) ==
    \E f \in DOMAIN packages_dir :
        /\ packages_dir[f].kind = "file"
        /\ \E v \in Spellings(n) :
              /\ Len(f) > Len(v)
              /\ \A k \in 1..Len(v) : LowerChar(f[k]) = v[k]
              /\ f[Len(v) + 1] = "-"

\* The lines verify checks: not skipped, with a name token.
CheckedLines == {i \in 1..Len(requirements) : ~IsSkippedLine(i) /\ HasNameToken(i)}

\* verify reports line i as satisfied: it checked it and does not list it.
ReportedSatisfied(i) == i \in CheckedLines /\ Stripped(i) \notin Range(report.missing)

\* C3: verify treats a requirement with normalized name n as satisfied if and
\* only if some regular file of the artifact directory has a lowercased name
\* that starts with n, with n's underscore variant or with n's dot variant,
\* followed by "-"; "PKG-Name==1.0.0" is satisfied by
\* "pkg_name-1.0.0-py3-none-any.whl" and "foo==1.0" is not by "foobar-1.0.tar.gz".
C3_SatisfiedIffPrefixedFile ==
    Verified =>
        /\ \A i \in CheckedLines :
              ReportedSatisfied(i) <=> HasPrefixedFile(RequirementName(i))
        /\ requirements = <<PKG_Name_pin>> => ReportedSatisfied(1)
        /\ requirements = <<foo_pin>> => ~ReportedSatisfied(1)

\* Reached: PKG-Name==1.0.0 verified against pkg_name-1.0.0-py3-none-any.whl.
C3_Witness ==
    /\ Verified
    /\ requirements = <<PKG_Name_pin>>
    /\ DOMAIN packages_dir = {pkg_name_whl}
    /\ report.exit = 0

\* Reached: foo==1.0 verified against foobar-1.0.tar.gz and reported missing.
C3_WitnessBoundary ==
    /\ Verified
    /\ requirements = <<foo_pin>>
    /\ DOMAIN packages_dir = {foobar_tar_gz}
    /\ report.missing = <<foo_pin>>

\* The members of a set of line numbers, ascending.
RECURSIVE InOrder(_)
InOrder(I) ==
    IF I = {} THEN <<>>
    ELSE LET m == CHOOSE i \in I : \A j \in I : i <= j
         IN  <<m>> \o InOrder(I \ {m})

\* What C4 says verify reports: `lines` the numbers of the lines it lists as
\* missing and text(i) how it writes line i, `checked` its count of checked lines.
ReportsMissing(lines, checked, text(_)) ==
    LET order == InOrder(lines)
    IN  /\ Len(report.missing) = Len(order)
        /\ \A k \in 1..Len(order) : report.missing[k] = text(order[k])
        /\ report.checked = checked
        /\ report.exit = (IF lines = {} THEN 0 ELSE 1)
        /\ Len(report.stdout) = (IF lines = {} THEN 1 ELSE 1 + Len(order))
        /\ lines = {} => (report.stdout[1][1] = "All" /\ report.stdout[1][2] = checked)
        /\ lines # {} =>
              /\ report.stdout[1][1] = "MISSING"
              /\ report.stdout[1][2] = Len(order)
              /\ report.stdout[1][3] = checked
              /\ \A k \in 1..Len(order) : report.stdout[k + 1][2] = text(order[k])

Verbatim(i) == requirements[i]

\* The lines left after the blank, comment and option lines are skipped.
RemainingLines == {i \in 1..Len(requirements) : ~IsSkippedLine(i)}

\* C4 as stated: verify skips blank lines, "#" lines and "-" lines; the
\* missing sequence is exactly the remaining lines that are not satisfied,
\* each verbatim and in input order; the run succeeds iff that sequence is
\* empty and otherwise exits non-zero, listing every missing requirement with
\* the missing/checked counts.
C4_Original ==
    Verified =>
        ReportsMissing({i \in RemainingLines : ~HasPrefixedFile(RequirementName(i))},
                       Cardinality(RemainingLines), Verbatim)

\* C4 as amended: verify also skips a line that starts with no name character
\* (letter, digit, "_", ".", "-", "[", "]"), uncounted and unreported, and it
\* reports each missing line with its surrounding whitespace stripped; the
\* rest as stated, and "numpy==1.0" is missing when the directory holds only
\* "scipy-1.0-py3-none-any.whl".
C4_MissingInInputOrder ==
    Verified =>
        /\ ReportsMissing({i \in CheckedLines : ~HasPrefixedFile(RequirementName(i))},
                          Cardinality(CheckedLines), Stripped)
        /\ (requirements = <<numpy_pin>> /\ DOMAIN packages_dir = {scipy_whl})
              => report.missing = <<numpy_pin>>

\* Reached: two requirements missing, the first written with surrounding spaces.
C4_Witness ==
    /\ Verified
    /\ requirements = <<<<" ", "b">> \o Pin \o <<" ">>, numpy_pin>>
    /\ DOMAIN packages_dir = {a_1_whl}
    /\ report.exit = 1
    /\ report.missing = <<<<"b">> \o Pin, numpy_pin>>

\* Reached: an option line skipped and a requirement satisfied: success.
C4_WitnessSuccess ==
    /\ Verified
    /\ requirements = <<<<"-", "r">>, <<"a">> \o Pin>>
    /\ DOMAIN packages_dir = {a_1_whl, b_1_zip}
    /\ report.exit = 0
    /\ report.checked = 1

\* The index generate_index builds serves n: a root link, a page and an
\* artifact classified as n.
Served(n) ==
    /\ index_dir.root # None
    /\ n \in RootNames
    /\ n \in PagesPresent
    /\ ArtifactsOf(n) # {}

HyphenFreeSpellings(n) == {v \in Spellings(n) : \A k \in 1..Len(v) : v[k] # "-"}

\* A regular file named *.whl whose lowercased name starts with a hyphen-free
\* spelling of n and a "-".
HasPrefixedWheel(n) ==
    \E f \in DOMAIN packages_dir :
        /\ packages_dir[f].kind = "file"
        /\ EndsWith(f, WHL)
        /\ \E v \in HyphenFreeSpellings(n) : StartsWith(Lower(f), v \o <<"-">>)

C10_ServedIsSatisfied ==
    (Verified /\ JustGenerated /\ index_dir.root # None) =>
        \A i \in CheckedLines :
            RequirementName(i) \in RootNames => ReportedSatisfied(i)

=============================================================================
